---- MODULE Spec2Model ----
(***************************************************************************)
(* Model of the two icon scripts of kafeel-macos:                          *)
(*   generate_icons.py        create_icon, generate_all_icons              *)
(*   create_proper_iconset.py the module-level repackaging pass            *)
(* A directory is a function from the names of the files it holds to their *)
(* contents.  GenSpec runs generate_all_icons, PackSpec runs the           *)
(* repackager (several times, the source directory changing between runs), *)
(* IconSpec renders create_icon and reads pixels of its alpha channel.     *)
(***************************************************************************)
EXTENDS Integers, Sequences, FiniteSets, TLC

VARIABLES
    out_exists,   \* generate_icons.py: output_dir exists
    out_files,    \* generate_icons.py: files of output_dir, name -> content
    out_start,    \* the files of output_dir when the run started
    gpc,          \* position in generate_all_icons
    gi,           \* index into sizes of the pair the loop handles next
    gen_stdout,   \* the "Generated: ..." lines generate_all_icons printed
    src_files,    \* create_proper_iconset.py: files of src_dir
    dest_exists,  \* create_proper_iconset.py: dest_dir exists
    dest_files,   \* create_proper_iconset.py: files of dest_dir
    ppc,          \* position in the repackager script
    pk,           \* index into mappings of the pair the loop handles next
    pack_stdout,  \* the "Copied: ..." lines the current run printed
    runs,         \* what every ended repackager run saw and left
    run_src,      \* the files of src_dir when the current run started
    run_dest,     \* the files of dest_dir when the current run started
    env_changes,  \* how often src_dir was changed between runs
    icon,         \* IconSpec: the image create_icon returned, or NoIcon
    probe         \* IconSpec: the pixel read last, <<x, y, alpha>>, or <<>>

genVars  == <<out_exists, out_files, out_start, gpc, gi, gen_stdout>>
packVars == <<src_files, dest_exists, dest_files, ppc, pk, pack_stdout, runs,
              run_src, run_dest, env_changes>>
iconVars == <<icon, probe>>
vars     == <<genVars, packVars, iconVars>>

----------------------------------------------------------------------------
(* Bounds of the model. *)
MaxStale   == 2   \* files output_dir / dest_dir hold before the first run
MaxMissing == 1   \* source files absent from src_dir at the start
MaxRuns    == 2   \* runs of the repackager
MaxEnv     == 1   \* changes of src_dir between repackager runs

----------------------------------------------------------------------------
(* Directories. *)
EmptyDir == [n \in {} |-> 0]

Put(dir, name, content) ==
    [n \in (DOMAIN dir) \cup {name} |-> IF n = name THEN content ELSE dir[n]]

Remove(dir, name) == [n \in (DOMAIN dir) \ {name} |-> dir[n]]

\* No image: create_icon has not been called.
NoIcon == [width |-> 0, height |-> 0]

StaleFile   == [kind |-> "stale"]
PartialFile == [kind |-> "partial"]

----------------------------------------------------------------------------
(* generate_icons.py: create_icon.                                         *)

\* generate_all_icons: the (base_size, scale) pairs and the size rendered
\* for each.
sizes == << <<16, 1>>, <<16, 2>>, <<32, 1>>, <<32, 2>>, <<128, 1>>,
            <<128, 2>>, <<256, 1>>, <<256, 2>>, <<512, 1>>, <<512, 2>> >>

\* (mutant: the scale is left out of the rendered size)
MutPixelSizeBase(base_size, scale) == base_size

pixel_size(base_size, scale) == base_size * scale

\* Every pixel size generate_all_icons renders.
PixelSizes == {pixel_size(sizes[k][1], sizes[k][2]) : k \in 1..Len(sizes)}

\* corner_radius = int(size * 0.22)
corner_radius(size) == (size * 22) \div 100

abs(n) == IF n < 0 THEN -n ELSE n

\* ImageDraw's ellipse in a bounding box of width a and height b: the
\* outline is walked in doubled coordinates relative to the centre, from
\* (a, b % 2) to (a % 2, b), each step taking the candidate nearest to the
\* ellipse.  The deviation is a2*y*y + b2*x*x - a2*b2; for a circle (a = b)
\* the common factor a2 is dropped, which leaves every comparison as it is.
quarter_delta(a, b, x, y) ==
    IF a = b THEN abs(x * x + y * y - a * a)
    ELSE abs(a * a * y * y + b * b * x * x - a * a * b * b)

quarter_next(a, b, c) ==
    IF c[1] = a % 2 /\ c[2] = b
    THEN c
    ELSE LET up   == <<c[1], c[2] + 2>>
             diag == <<c[1] - 2, c[2] + 2>>
             left == <<c[1] - 2, c[2]>>
             d_up   == quarter_delta(a, b, up[1], up[2])
             d_diag == quarter_delta(a, b, diag[1], diag[2])
             d_left == quarter_delta(a, b, left[1], left[2])
         IN  IF c[1] > 1
             THEN IF d_up > d_diag
                  THEN (IF d_diag > d_left THEN left ELSE diag)
                  ELSE (IF d_up > d_left THEN left ELSE up)
             ELSE up

\* The walk advanced by at most n points, stopping at the first point of
\* row y (or at the end of the quarter).
RECURSIVE quarter_walk(_, _, _, _, _)
quarter_walk(a, b, c, y, n) ==
    IF c[2] >= y \/ (c[1] = a % 2 /\ c[2] = b) THEN c
    ELSE IF n <= 1 THEN quarter_next(a, b, c)
    ELSE LET h   == n \div 2
             mid == quarter_walk(a, b, c, y, h)
         IN  quarter_walk(a, b, mid, y, n - h)

\* Half-width (doubled) of the filled span of row y (doubled, y >= 0).
span(a, b, y) == quarter_walk(a, b, <<a, b % 2>>, y, a + b + 2)[1]

\* The spans of every row of the circles the masks of this program need,
\* walked once: Circles[a][k] is span(a, a, 2 * k + a % 2).
Circles ==
    [a \in {2 * corner_radius(size) : size \in PixelSizes} |->
        [k \in 0..(a \div 2) |-> span(a, a, 2 * k + (a % 2))]]

\* The pixel (x, y) lies in the filled ellipse whose bounding box has its
\* top-left corner at (x0, y0), width a and height b.
in_ellipse(x0, y0, a, b, x, y) ==
    LET dx == abs(2 * (x - x0) - a)
        dy == abs(2 * (y - y0) - b)
    IN  /\ dx <= a /\ dy <= b
        /\ dx <= (IF a = b /\ a \in DOMAIN Circles
                  THEN Circles[a][dy \div 2] ELSE span(a, b, dy))

in_circle(x0, y0, a, x, y) == in_ellipse(x0, y0, a, a, x, y)

\* rectangle([(x0, y0), (x1, y1)], fill)
rectangle(x0, y0, x1, y1, x, y) ==
    x0 <= x /\ x <= x1 /\ y0 <= y /\ y <= y1

\* (mutant: the radius is ignored, the whole rectangle is filled)
MutRectangle(x0, y0, x1, y1, radius, x, y) ==
    x0 <= x /\ x <= x1 /\ y0 <= y /\ y <= y1

\* rounded_rectangle([(x0, y0), (x1, y1)], radius, fill).  Corners that
\* join on both axes make an ellipse, a radius of 0 a plain rectangle;
\* corners that join on one axis make two half discs and the rectangle
\* between them; otherwise four quarter discs in the corners, one rectangle
\* between them and one at either side.
rounded_rectangle(x0, y0, x1, y1, radius, x, y) ==
    LET d0     == 2 * radius
        full_x == d0 >= x1 - x0 - 1
        d1     == IF full_x THEN x1 - x0 ELSE d0
        full_y == d1 >= y1 - y0 - 1
        d      == IF full_y THEN y1 - y0 ELSE d1
        r      == d \div 2
    IN  IF full_x /\ full_y
        THEN in_ellipse(x0, y0, x1 - x0, y1 - y0, x, y)
        ELSE IF d = 0
        THEN rectangle(x0, y0, x1, y1, x, y)
        ELSE IF full_x
        THEN \/ rectangle(x0, y0 + r + 1, x1, y1 - r - 1, x, y)
             \/ /\ 2 * (y - y0) <= d /\ in_circle(x0, y0, d, x, y)
             \/ /\ 2 * (y - (y1 - d)) >= d /\ in_circle(x0, y1 - d, d, x, y)
        ELSE IF full_y
        THEN \/ rectangle(x0 + r + 1, y0, x1 - r - 1, y1, x, y)
             \/ /\ 2 * (x - x0) <= d /\ in_circle(x0, y0, d, x, y)
             \/ /\ 2 * (x - (x1 - d)) >= d /\ in_circle(x1 - d, y0, d, x, y)
        ELSE
        \/ rectangle(x0 + r + 1, y0, x1 - r - 1, y1, x, y)
        \/ rectangle(x0, y0 + r + 1, x0 + r, y1 - r - 1, x, y)
        \/ rectangle(x1 - r, y0 + r + 1, x1, y1 - r - 1, x, y)
        \/ /\ x <= x0 + r /\ y <= y0 + r /\ in_circle(x0, y0, d, x, y)
        \/ /\ x >= x1 - r /\ y <= y0 + r /\ in_circle(x1 - d, y0, d, x, y)
        \/ /\ x >= x1 - r /\ y >= y1 - r /\ in_circle(x1 - d, y1 - d, d, x, y)
        \/ /\ x <= x0 + r /\ y >= y1 - r /\ in_circle(x0, y1 - d, d, x, y)

\* mask = Image.new('L', (size, size), 0), then the rounded rectangle
\* [(0, 0), (size, size)] filled with 255: the value of pixel (x, y).
mask(size, x, y) ==
    IF /\ 0 <= x /\ x < size /\ 0 <= y /\ y < size
       /\ rounded_rectangle(0, 0, size, size, corner_radius(size), x, y)
    THEN 255 ELSE 0

\* The image create_icon returns.  output.putalpha(mask) replaces the alpha
\* channel by the mask; the colour channels (gradient and bars) are left out,
\* nothing below reads them.
create_icon(size) == [width |-> size, height |-> size]

\* Alpha of pixel (x, y) of an image create_icon returned.
alpha(img, x, y) == mask(img.width, x, y)

----------------------------------------------------------------------------
(* generate_icons.py: generate_all_icons.                                  *)

suffix(scale) == IF scale = 2 THEN "@2x" ELSE ""

\* (mutant: the loop names every file without the @2x suffix)
MutFilenameNoSuffix(base_size, scale) ==
    "icon_" \o ToString(base_size) \o "x" \o ToString(base_size) \o ".png"

filename(base_size, scale) ==
    "icon_" \o ToString(base_size) \o "x" \o ToString(base_size)
            \o suffix(scale) \o ".png"

\* icon.save(filepath, 'PNG'): the file then holds the image.
PngFile(img) == [kind |-> "png", width |-> img.width, height |-> img.height]

entry_1x(s) ==
    [filename |-> "icon_" \o ToString(s) \o "x" \o ToString(s) \o ".png",
     idiom |-> "mac", scale |-> "1x",
     size |-> ToString(s) \o "x" \o ToString(s)]

\* (mutant: the scale-2 entries are tagged "1x")
MutEntry2xScale(s) ==
    [filename |-> "icon_" \o ToString(s) \o "x" \o ToString(s) \o "@2x.png",
     idiom |-> "mac", scale |-> "1x",
     size |-> ToString(s) \o "x" \o ToString(s)]

entry_2x(s) ==
    [filename |-> "icon_" \o ToString(s) \o "x" \o ToString(s) \o "@2x.png",
     idiom |-> "mac", scale |-> "2x",
     size |-> ToString(s) \o "x" \o ToString(s)]

images ==
    LET ones == SelectSeq(sizes, LAMBDA p : p[2] = 1)
        twos == SelectSeq(sizes, LAMBDA p : p[2] = 2)
    IN  [k \in 1..Len(ones) |-> entry_1x(ones[k][1])]
        \o [k \in 1..Len(twos) |-> entry_2x(twos[k][1])]

contents ==
    [images |-> images,
     info |-> [author |-> "kafeel-icon-generator", version |-> 1]]

\* json.dump(contents, f, indent=2): the file then holds the document.
JsonFile(doc) == [kind |-> "json", doc |-> doc]

\* Every name generate_all_icons writes to.
GenNames == {filename(sizes[k][1], sizes[k][2]) : k \in 1..Len(sizes)}
                \cup {"Contents.json"}

GenInit ==
    /\ \/ out_exists = FALSE /\ out_files = EmptyDir
       \/ /\ out_exists = TRUE
          /\ \E S \in SUBSET GenNames :
               /\ Cardinality(S) <= MaxStale
               /\ out_files = [n \in S |-> StaleFile]
    /\ out_start = out_files
    /\ gpc = "mkdir"
    /\ gi = 1
    /\ gen_stdout = <<>>
    \* the other programs are not run
    /\ src_files = EmptyDir /\ dest_exists = FALSE /\ dest_files = EmptyDir
    /\ ppc = "off" /\ pk = 1 /\ pack_stdout = <<>> /\ runs = <<>>
    /\ run_src = EmptyDir /\ run_dest = EmptyDir /\ env_changes = 0
    /\ icon = NoIcon /\ probe = <<>>

\* output_dir.mkdir(parents=True, exist_ok=True)
GenMkdir ==
    /\ gpc = "mkdir"
    /\ out_exists' = TRUE
    /\ gpc' = "loop"
    /\ UNCHANGED <<out_files, out_start, gi, gen_stdout, packVars, iconVars>>

\* One pass of the loop over sizes: render, save, print.
GenSave ==
    /\ gpc = "loop"
    /\ gi <= Len(sizes)
    /\ LET base_size == sizes[gi][1]
           scale     == sizes[gi][2]
           img       == create_icon(pixel_size(base_size, scale))
           name      == filename(base_size, scale)
       IN  /\ out_files' = Put(out_files, name, PngFile(img))
           /\ gen_stdout' = Append(gen_stdout, "Generated: " \o name)
    /\ gi' = gi + 1
    /\ UNCHANGED <<out_exists, out_start, gpc, packVars, iconVars>>

\* (mutant: the manifest is written before the loop has ended)
MutManifestEarly ==
    /\ gpc = "loop"
    /\ gi > Len(sizes) \/ "Contents.json" \notin DOMAIN out_files
    /\ out_files' = Put(out_files, "Contents.json", JsonFile(contents))
    /\ gen_stdout' = Append(gen_stdout, "Generated: Contents.json")
    /\ gpc' = IF gi > Len(sizes) THEN "done" ELSE "loop"
    /\ UNCHANGED <<out_exists, out_start, gi, packVars, iconVars>>

\* The manifest, written when the loop has ended.
GenManifest ==
    /\ gpc = "loop"
    /\ gi > Len(sizes)
    /\ out_files' = Put(out_files, "Contents.json", JsonFile(contents))
    /\ gen_stdout' = Append(gen_stdout, "Generated: Contents.json")
    /\ gpc' = "done"
    /\ UNCHANGED <<out_exists, out_start, gi, packVars, iconVars>>

\* An OSError is not caught: the run ends there.  mkdir, icon.save and
\* open / json.dump raise it, and so does print.  A write that fails is not
\* atomic: the file it was writing is left as it was, or is left created or
\* truncated with part of its content.  A print that fails comes after its
\* file was written whole; gen_stdout holds the lines print completed.
GenFail ==
    /\ gpc \in {"mkdir", "loop"}
    /\ gpc' = "failed"
    /\ \/ UNCHANGED out_files
       \/ /\ gpc = "loop"
          /\ LET name == IF gi <= Len(sizes)
                         THEN filename(sizes[gi][1], sizes[gi][2])
                         ELSE "Contents.json"
             IN  out_files' = Put(out_files, name, PartialFile)
       \/ /\ gpc = "loop"
          /\ gi <= Len(sizes)
          /\ LET base_size == sizes[gi][1]
                 scale     == sizes[gi][2]
                 img       == create_icon(pixel_size(base_size, scale))
             IN  out_files' = Put(out_files, filename(base_size, scale),
                                  PngFile(img))
       \/ /\ gpc = "loop"
          /\ gi > Len(sizes)
          /\ out_files' = Put(out_files, "Contents.json", JsonFile(contents))
    /\ UNCHANGED <<out_exists, out_start, gi, gen_stdout, packVars, iconVars>>

GenNext == GenMkdir \/ GenSave \/ GenManifest \/ GenFail

----------------------------------------------------------------------------
(* create_proper_iconset.py.                                               *)

\* (mutant: the @2x names are mapped to x2 names)
MutMappingsX2 ==
    << <<"icon_16x16.png", "icon_16x16.png">>,
       <<"icon_16x16@2x.png", "icon_16x16x2.png">>,
       <<"icon_32x32.png", "icon_32x32.png">>,
       <<"icon_32x32@2x.png", "icon_32x32x2.png">>,
       <<"icon_128x128.png", "icon_128x128.png">>,
       <<"icon_128x128@2x.png", "icon_128x128x2.png">>,
       <<"icon_256x256.png", "icon_256x256.png">>,
       <<"icon_256x256@2x.png", "icon_256x256x2.png">>,
       <<"icon_512x512.png", "icon_512x512.png">>,
       <<"icon_512x512@2x.png", "icon_512x512x2.png">> >>

mappings ==
    << <<"icon_16x16.png", "icon_16x16.png">>,
       <<"icon_16x16@2x.png", "icon_16x16@2x.png">>,
       <<"icon_32x32.png", "icon_32x32.png">>,
       <<"icon_32x32@2x.png", "icon_32x32@2x.png">>,
       <<"icon_128x128.png", "icon_128x128.png">>,
       <<"icon_128x128@2x.png", "icon_128x128@2x.png">>,
       <<"icon_256x256.png", "icon_256x256.png">>,
       <<"icon_256x256@2x.png", "icon_256x256@2x.png">>,
       <<"icon_512x512.png", "icon_512x512.png">>,
       <<"icon_512x512@2x.png", "icon_512x512@2x.png">> >>

SrcNames  == {mappings[k][1] : k \in 1..Len(mappings)}
DestNames == {mappings[k][2] : k \in 1..Len(mappings)}

\* The bytes of revision rev of the source file name: distinct files and
\* distinct revisions hold distinct bytes.
Bytes(name, rev) == [kind |-> "bytes", of |-> name, rev |-> rev]

\* Files dest_dir may hold before the first run, and the source files that
\* change between runs.
StaleNames == {"icon_16x16.png", "icon_512x512@2x.png", "extra.png"}
EnvNames   == {"icon_16x16.png", "icon_32x32@2x.png"}

\* (mutant: the bytes are appended to a destination file that exists)
MutCopyAppend(dir, dest_name, bytes) ==
    IF dest_name \in DOMAIN dir
    THEN Put(dir, dest_name, [kind |-> "appended", to |-> dir[dest_name],
                             bytes |-> bytes])
    ELSE Put(dir, dest_name, bytes)

\* shutil.copy(src_file, dest_file): dest_file then holds src_file's bytes.
shutil_copy(dir, dest_name, bytes) == Put(dir, dest_name, bytes)

PackInit ==
    /\ \E M \in SUBSET SrcNames :
         /\ Cardinality(M) <= MaxMissing
         /\ src_files = [n \in (SrcNames \ M) \cup {"Contents.json"} |->
                            Bytes(n, 1)]
    /\ \/ dest_exists = FALSE /\ dest_files = EmptyDir
       \/ /\ dest_exists = TRUE
          /\ \E S \in SUBSET StaleNames :
               /\ Cardinality(S) <= MaxStale
               /\ dest_files = [n \in S |-> StaleFile]
    /\ ppc = "idle"
    /\ pk = 1
    /\ pack_stdout = <<>>
    /\ runs = <<>>
    /\ run_src = src_files
    /\ run_dest = dest_files
    /\ env_changes = 0
    \* the other programs are not run
    /\ out_exists = FALSE /\ out_files = EmptyDir /\ out_start = EmptyDir
    /\ gpc = "off" /\ gi = 1 /\ gen_stdout = <<>>
    /\ icon = NoIcon /\ probe = <<>>

\* The script is started.
PackStart ==
    /\ ppc \in {"idle", "done"}
    /\ Len(runs) < MaxRuns
    /\ ppc' = "mkdir"
    /\ pk' = 1
    /\ pack_stdout' = <<>>
    /\ run_src' = src_files
    /\ run_dest' = dest_files
    /\ UNCHANGED <<src_files, dest_exists, dest_files, runs, env_changes,
                   genVars, iconVars>>

\* dest_dir.mkdir(exist_ok=True), and the first print.
PackMkdir ==
    /\ ppc = "mkdir"
    /\ dest_exists' = TRUE
    /\ ppc' = "loop"
    /\ UNCHANGED <<src_files, dest_files, pk, pack_stdout, runs, run_src,
                   run_dest, env_changes,
                   genVars, iconVars>>

\* What a run saw and left when it ended at pair pk.
RunRecord(status) ==
    [status |-> status, src |-> run_src, src_end |-> src_files,
     dest0 |-> run_dest, dest |-> dest_files, stdout |-> pack_stdout,
     at |-> pk]

\* One pass of the loop over mappings whose source file exists.
PackCopy ==
    /\ ppc = "loop"
    /\ pk <= Len(mappings)
    /\ LET src_name  == mappings[pk][1]
           dest_name == mappings[pk][2]
       IN  /\ src_name \in DOMAIN src_files
           /\ dest_files' = shutil_copy(dest_files, dest_name,
                                        src_files[src_name])
           /\ pack_stdout' = Append(pack_stdout, "Copied: " \o dest_name)
    /\ pk' = pk + 1
    /\ UNCHANGED <<src_files, dest_exists, ppc, runs, run_src, run_dest,
                   env_changes,
                   genVars, iconVars>>

\* (mutant: a source file that is absent is an error)
MutSkipRaises ==
    /\ ppc = "loop"
    /\ pk <= Len(mappings)
    /\ mappings[pk][1] \notin DOMAIN src_files
    /\ ppc' = "failed"
    /\ runs' = Append(runs, RunRecord("failed_copy"))
    /\ UNCHANGED <<src_files, dest_exists, dest_files, pk, pack_stdout,
                   run_src, run_dest, env_changes, genVars, iconVars>>

\* (mutant: the destination of an absent source file is removed)
MutSkipRemoves ==
    /\ ppc = "loop"
    /\ pk <= Len(mappings)
    /\ mappings[pk][1] \notin DOMAIN src_files
    /\ dest_files' = Remove(dest_files, mappings[pk][2])
    /\ pk' = pk + 1
    /\ UNCHANGED <<src_files, dest_exists, ppc, pack_stdout, runs, run_src,
                   run_dest, env_changes, genVars, iconVars>>

\* One pass of the loop over mappings whose source file is absent.
PackSkip ==
    /\ ppc = "loop"
    /\ pk <= Len(mappings)
    /\ mappings[pk][1] \notin DOMAIN src_files
    /\ pk' = pk + 1
    /\ UNCHANGED <<src_files, dest_exists, dest_files, ppc, pack_stdout,
                   runs, run_src, run_dest, env_changes,
                   genVars, iconVars>>

\* The loop has ended: the script prints its last lines and exits.
PackFinish ==
    /\ ppc = "loop"
    /\ pk > Len(mappings)
    /\ ppc' = "done"
    /\ runs' = Append(runs, RunRecord("done"))
    /\ UNCHANGED <<src_files, dest_exists, dest_files, pk, pack_stdout,
                   run_src, run_dest, env_changes,
                   genVars, iconVars>>

\* An OSError is not caught: the script ends there.  mkdir raises it, or the
\* print after it; src_file.exists() raises it (any error but "not found",
\* e.g. a src_dir that may not be searched), whether the file is there or
\* not; shutil.copy raises it, or the print after it; the last prints raise
\* it.  shutil.copy is copyfile, then copymode: a copy that
\* fails leaves its destination file as it was, or created or truncated
\* with part of the bytes, or (copymode failing) with all of them.
\* pack_stdout holds the lines print completed.
PackFail ==
    /\ \/ /\ ppc = "mkdir"
          /\ UNCHANGED <<dest_files, dest_exists>>
          /\ runs' = Append(runs, RunRecord("failed_mkdir"))
       \/ /\ ppc = "mkdir"
          /\ dest_exists' = TRUE
          /\ UNCHANGED dest_files
          /\ runs' = Append(runs, RunRecord("failed_print"))
       \/ /\ ppc = "loop" /\ pk <= Len(mappings)
          /\ mappings[pk][1] \in DOMAIN src_files
          /\ \/ UNCHANGED dest_files
             \/ dest_files' = Put(dest_files, mappings[pk][2], PartialFile)
             \/ dest_files' = shutil_copy(dest_files, mappings[pk][2],
                                          src_files[mappings[pk][1]])
          /\ UNCHANGED dest_exists
          /\ runs' = Append(runs, [RunRecord("failed_copy")
                                     EXCEPT !.dest = dest_files'])
       \/ /\ ppc = "loop" /\ pk <= Len(mappings)
          /\ UNCHANGED <<dest_files, dest_exists>>
          /\ runs' = Append(runs, RunRecord("failed_exists"))
       \/ /\ ppc = "loop" /\ pk > Len(mappings)
          /\ UNCHANGED <<dest_files, dest_exists>>
          /\ runs' = Append(runs, RunRecord("failed_print"))
    /\ ppc' = "failed"
    /\ UNCHANGED <<src_files, pk, pack_stdout, run_src,
                   run_dest, env_changes,
                   genVars, iconVars>>

\* Between two runs a source file is removed, or written anew.
EnvRemove ==
    /\ ppc = "done"
    /\ env_changes < MaxEnv
    /\ \E n \in EnvNames \cap DOMAIN src_files :
         src_files' = Remove(src_files, n)
    /\ env_changes' = env_changes + 1
    /\ UNCHANGED <<dest_exists, dest_files, ppc, pk, pack_stdout, runs,
                   run_src, run_dest,
                   genVars, iconVars>>

EnvWrite ==
    /\ ppc = "done"
    /\ env_changes < MaxEnv
    /\ \E n \in EnvNames : src_files' = Put(src_files, n, Bytes(n, 2))
    /\ env_changes' = env_changes + 1
    /\ UNCHANGED <<dest_exists, dest_files, ppc, pk, pack_stdout, runs,
                   run_src, run_dest,
                   genVars, iconVars>>

PackNext == PackStart \/ PackMkdir \/ PackCopy \/ PackSkip \/ PackFinish
                \/ PackFail \/ EnvRemove \/ EnvWrite

----------------------------------------------------------------------------
(* Reading pixels of an image create_icon returned.                        *)

\* Offsets of the pixels of a corner region of side r from its corner.
Offsets(r) == 0..(r - 1)

\* x (or y) of the pixel at offset i from the near (far = FALSE) or the far
\* edge of an image of the given size.
Coord(size, far, i) == IF far THEN size - 1 - i ELSE i

IconInit ==
    /\ icon = NoIcon /\ probe = <<>>
    \* the other programs are not run
    /\ out_exists = FALSE /\ out_files = EmptyDir /\ out_start = EmptyDir
    /\ gpc = "off" /\ gi = 1 /\ gen_stdout = <<>>
    /\ src_files = EmptyDir /\ dest_exists = FALSE /\ dest_files = EmptyDir
    /\ ppc = "off" /\ pk = 1 /\ pack_stdout = <<>> /\ runs = <<>>
    /\ run_src = EmptyDir /\ run_dest = EmptyDir /\ env_changes = 0

Render ==
    /\ icon = NoIcon
    /\ \E size \in PixelSizes : icon' = create_icon(size)
    /\ UNCHANGED <<probe, genVars, packVars>>

\* Read one pixel of a corner region of the image.
Probe ==
    /\ icon # NoIcon
    /\ probe = <<>>
    /\ \E right \in BOOLEAN, bottom \in BOOLEAN :
         \E i \in Offsets(corner_radius(icon.width)),
            j \in Offsets(corner_radius(icon.width)) :
           LET x == Coord(icon.width, right, i)
               y == Coord(icon.height, bottom, j)
           IN  probe' = <<x, y, alpha(icon, x, y)>>
    /\ UNCHANGED <<icon, genVars, packVars>>

IconNext == Render \/ Probe

----------------------------------------------------------------------------
(* Specifications: one program each, the others at rest.                   *)

GenSpec  == GenInit /\ [][GenNext]_vars
PackSpec == PackInit /\ [][PackNext]_vars
IconSpec == IconInit /\ [][IconNext]_vars

----------------------------------------------------------------------------
(* Properties of generate_all_icons, checked under GenSpec.                *)

BaseSizes == {16, 32, 128, 256, 512}

\* The name the icon of a base size and scale is to have.
IconName(b, sc) ==
    "icon_" \o ToString(b) \o "x" \o ToString(b)
            \o (IF sc = 2 THEN "@2x.png" ELSE ".png")

IconNames == {IconName(b, sc) : b \in BaseSizes, sc \in {1, 2}}

\* The names in list order: 16, 16@2x, 32, 32@2x, ..., 512@2x.
IconOrder ==
    << IconName(16, 1), IconName(16, 2), IconName(32, 1), IconName(32, 2),
       IconName(128, 1), IconName(128, 2), IconName(256, 1),
       IconName(256, 2), IconName(512, 1), IconName(512, 2) >>

Contains(str, sub) ==
    \E i \in 1..(Len(str) - Len(sub) + 1) :
        SubSeq(str, i, i + Len(sub) - 1) = sub

IsPng(dir, n) == n \in DOMAIN dir /\ dir[n].kind = "png"

\* C1: when generate_all_icons has completed, for every base size and scale
\* of the fixed set the file icon_<b>x<b>.png (scale 1) or icon_<b>x<b>@2x.png
\* (scale 2) holds an image of width and height b * scale, and a name written
\* carries @2x exactly when its image is the scale-2 one.
C1_Dimensions ==
    gpc = "done" =>
        /\ \A b \in BaseSizes, sc \in {1, 2} :
             /\ IsPng(out_files, IconName(b, sc))
             /\ out_files[IconName(b, sc)].width = b * sc
             /\ out_files[IconName(b, sc)].height = b * sc
        /\ \A n \in DOMAIN out_files :
             out_files[n].kind = "png" =>
               (Contains(n, "@2x") <=>
                  \E b \in BaseSizes : n = IconName(b, 2)
                                         /\ out_files[n].width = 2 * b)

C1_Witness ==
    /\ gpc = "done"
    /\ IsPng(out_files, "icon_512x512@2x.png")
    /\ out_files["icon_512x512@2x.png"].width = 1024
    /\ IsPng(out_files, "icon_16x16.png")
    /\ out_files["icon_16x16.png"].height = 16

Manifest == out_files["Contents.json"].doc

\* C2: the manifest written has exactly 10 image entries, 2 for each base
\* size: exactly one with scale "1x" and exactly one with scale "2x", every
\* entry with idiom "mac" and size "<base>x<base>"; info.version is 1.
C2_Manifest ==
    gpc = "done" =>
        /\ "Contents.json" \in DOMAIN out_files
        /\ out_files["Contents.json"].kind = "json"
        /\ Len(Manifest.images) = 10
        /\ Len(Manifest.images) = 2 * Cardinality(BaseSizes)
        /\ \A b \in BaseSizes, sc \in {"1x", "2x"} :
             Cardinality({k \in 1..Len(Manifest.images) :
                            /\ Manifest.images[k].scale = sc
                            /\ Manifest.images[k].size =
                                 ToString(b) \o "x" \o ToString(b)}) = 1
        /\ \A k \in 1..Len(Manifest.images) :
             /\ Manifest.images[k].idiom = "mac"
             /\ Manifest.images[k].scale \in {"1x", "2x"}
             /\ \E b \in BaseSizes :
                  Manifest.images[k].size = ToString(b) \o "x" \o ToString(b)
        /\ Manifest.info.version = 1

C2_Witness ==
    /\ gpc = "done"
    /\ out_files["Contents.json"].kind = "json"
    /\ Manifest.images[1].scale = "1x"
    /\ Manifest.images[10].scale = "2x"
    /\ Manifest.images[10].size = "512x512"

\* The PNG names this run wrote, by the lines it printed.
Written == {n \in IconNames : \E k \in 1..Len(gen_stdout) :
                                 gen_stdout[k] = "Generated: " \o n}

ManifestNames == {Manifest.images[k].filename : k \in 1..Len(Manifest.images)}

\* C3: when generate_all_icons has completed, every filename the manifest
\* lists is a PNG file this run wrote into the output directory, and the
\* manifest's filenames are exactly the 10 PNG names written.
C3_RoundTrip ==
    gpc = "done" =>
        /\ \A n \in ManifestNames : n \in Written /\ IsPng(out_files, n)
        /\ ManifestNames = Written
        /\ Cardinality(Written) = 10

C3_Witness ==
    /\ gpc = "done"
    /\ "icon_128x128@2x.png" \in ManifestNames
    /\ "icon_128x128@2x.png" \in Written
    /\ "icon_128x128@2x.png" \in DOMAIN out_start
    /\ IsPng(out_files, "icon_128x128@2x.png")

NoManifestAtStart == "Contents.json" \notin DOMAIN out_start

HasManifest == "Contents.json" \in DOMAIN out_files

\* The PNGs of the first n names of the list were written by this run.
PrefixWritten(n) ==
    \A k \in 1..n : IsPng(out_files, IconOrder[k])

\* The lines printed are those of the first n names of the list.
PrefixPrinted(n) ==
    /\ Len(gen_stdout) >= n
    /\ \A k \in 1..n : gen_stdout[k] = "Generated: " \o IconOrder[k]

\* Nothing this run did shows at the names after the first n of the list.
RestUntouched(n) ==
    \A k \in (n + 1)..Len(IconOrder) :
        /\ IconOrder[k] \in DOMAIN out_files <=> IconOrder[k] \in DOMAIN out_start
        /\ IconOrder[k] \in DOMAIN out_files =>
             out_files[IconOrder[k]] = out_start[IconOrder[k]]

\* C9 as stated: from an output directory without Contents.json, in every
\* state of a run, aborted runs included, Contents.json exists only if all 10
\* PNG files do; and an aborted run leaves the PNGs of a prefix of the list
\* and no manifest.
C9_Original ==
    NoManifestAtStart =>
        /\ HasManifest => \A n \in IconNames : n \in DOMAIN out_files
        /\ gpc = "failed" =>
             /\ ~HasManifest
             /\ \E n \in 0..Len(IconOrder) :
                  /\ \A k \in 1..n : IconOrder[k] \in DOMAIN out_files
                  /\ RestUntouched(n)

\* C9 amended: from an output directory without Contents.json, in every
\* state of a run, aborted runs included, Contents.json exists only if all 10
\* PNGs were written and reported by this run; the PNGs are written in list
\* order, so an aborted run leaves the PNGs of a prefix of the list, the next
\* file possibly incomplete, and it leaves a manifest only if it failed in
\* the manifest's write (the manifest is then incomplete) or in the print
\* after it (the manifest is then whole).
C9_ManifestLast ==
    NoManifestAtStart =>
        /\ HasManifest =>
             /\ PrefixWritten(Len(IconOrder))
             /\ PrefixPrinted(Len(IconOrder))
             /\ gi > Len(sizes)
        /\ \E n \in 0..Len(IconOrder) :
             /\ PrefixWritten(n)
             /\ \/ Len(gen_stdout) = n /\ PrefixPrinted(n) /\ gpc # "done"
                \/ /\ gpc = "failed" /\ n >= 1
                   /\ Len(gen_stdout) = n - 1 /\ PrefixPrinted(n - 1)
                \/ /\ gpc = "done" /\ n = Len(IconOrder) /\ PrefixPrinted(n)
                   /\ Len(gen_stdout) = n + 1
             /\ \/ RestUntouched(n)
                \/ /\ gpc = "failed" /\ n < Len(IconOrder)
                   /\ IconOrder[n + 1] \in DOMAIN out_files
                   /\ out_files[IconOrder[n + 1]] = PartialFile
                   /\ RestUntouched(n + 1)
        /\ gpc = "failed" /\ HasManifest =>
             out_files["Contents.json"] \in {PartialFile, JsonFile(contents)}
        /\ gpc = "done" => HasManifest /\ out_files["Contents.json"].kind = "json"

C9_Witness ==
    /\ NoManifestAtStart
    /\ gpc = "failed"
    /\ HasManifest
    /\ out_files["Contents.json"] = JsonFile(contents)
    /\ Len(gen_stdout) = 10
    /\ IsPng(out_files, IconOrder[10])

----------------------------------------------------------------------------
(* Properties of the repackager, checked under PackSpec.                   *)

Pairs == 1..Len(mappings)

Finished == {k \in 1..Len(runs) : runs[k].status = "done"}

SameAt(d0, d1, n) ==
    /\ n \in DOMAIN d0 <=> n \in DOMAIN d1
    /\ n \in DOMAIN d1 => d1[n] = d0[n]

\* C4: with the source directory the same for two successive runs, the
\* second run leaves the destination directory as the first left it: the same
\* files with the same bytes.
C4_Idempotent ==
    \A k \in Finished :
        (k + 1) \in Finished /\ runs[k + 1].src = runs[k].src =>
            runs[k + 1].dest = runs[k].dest

C4_Witness ==
    /\ Len(runs) = 2
    /\ Finished = {1, 2}
    /\ runs[2].src = runs[1].src
    /\ Len(runs[2].stdout) >= 9
    /\ runs[2].dest = runs[1].dest
    /\ runs[1].dest # runs[1].dest0

\* C5 as stated: a pair whose source file is absent is skipped without an
\* error being raised: no run ends in an error at such a pair.
C5_Original ==
    \A k \in 1..Len(runs) :
        runs[k].status \in {"failed_copy", "failed_exists"} =>
            mappings[runs[k].at][1] \in DOMAIN runs[k].src

Copied(run, p) ==
    \E l \in 1..Len(run.stdout) : run.stdout[l] = "Copied: " \o mappings[p][2]

\* C5 amended: at a pair whose source file is absent the only error raised is
\* one of the existence check itself (src_file.exists() failing for another
\* reason than the file not being there); the check answering, the pair is
\* skipped.  Whether the run goes on or ends in an error, no destination file
\* is created or changed for the pair and no line is printed for it; a run
\* that ends normally has copied every pair whose source exists.
C5_SkipMissing ==
    /\ \A k \in 1..Len(runs) :
         /\ runs[k].status \in {"failed_copy", "failed_exists"} =>
              \/ mappings[runs[k].at][1] \in DOMAIN runs[k].src
              \/ /\ runs[k].status = "failed_exists"
                 /\ SameAt(runs[k].dest0, runs[k].dest, mappings[runs[k].at][2])
         /\ \A p \in Pairs :
              mappings[p][1] \notin DOMAIN runs[k].src =>
                /\ SameAt(runs[k].dest0, runs[k].dest, mappings[p][2])
                /\ ~Copied(runs[k], p)
         /\ runs[k].status = "done" =>
              \A p \in Pairs :
                mappings[p][1] \in DOMAIN runs[k].src =>
                  /\ mappings[p][2] \in DOMAIN runs[k].dest
                  /\ Copied(runs[k], p)
    /\ ppc = "loop" /\ pk <= Len(mappings)
         /\ mappings[pk][1] \notin DOMAIN src_files =>
           ENABLED PackSkip

C5_Witness ==
    /\ Len(runs) >= 1
    /\ runs[1].status = "done"
    /\ "icon_16x16.png" \notin DOMAIN runs[1].src
    /\ "icon_16x16.png" \notin DOMAIN runs[1].dest
    /\ Len(runs[1].stdout) = 9
    /\ "icon_512x512@2x.png" \in DOMAIN runs[1].dest

\* C7: after a run, for each of the 10 pairs whose source file exists the
\* destination directory holds destName with exactly the bytes of the source
\* file, and destName equals sourceName for every pair.
C7_IdentityCopy ==
    /\ \A k \in Finished :
         \A p \in Pairs :
           mappings[p][1] \in DOMAIN runs[k].src =>
             /\ mappings[p][2] \in DOMAIN runs[k].dest
             /\ runs[k].dest[mappings[p][2]] = runs[k].src[mappings[p][1]]
             /\ mappings[p][1] \in DOMAIN runs[k].dest
    /\ Len(mappings) = 10
    /\ \A p \in Pairs : mappings[p][2] = mappings[p][1]

C7_Witness ==
    /\ Len(runs) >= 1
    /\ runs[1].status = "done"
    /\ Len(runs[1].stdout) = 10
    /\ "icon_32x32@2x.png" \in DOMAIN runs[1].src
    /\ "icon_32x32@2x.png" \in DOMAIN runs[1].dest
    /\ runs[1].dest["icon_32x32@2x.png"] = runs[1].src["icon_32x32@2x.png"]
    /\ runs[1].dest0 = EmptyDir

\* C8: every destination filename the repackager writes follows
\* icon_<size>x<size>[x2].png: a source name with @2x is written under a
\* name with x2, and no name written contains @2x.
C8_X2Names ==
    \A k \in 1..Len(runs) :
        \A l \in 1..Len(runs[k].stdout) :
            ~Contains(runs[k].stdout[l], "@2x")

\* What a run may change in the destination directory: only names of the
\* mapping whose source exists, and those it leaves present.
Frame(d0, d1, src) ==
    \A n \in (DOMAIN d0) \cup (DOMAIN d1) :
        SameAt(d0, d1, n)
          \/ /\ n \in DOMAIN d1
             /\ \E p \in Pairs : /\ mappings[p][2] = n
                                 /\ mappings[p][1] \in DOMAIN src

\* C10: a run leaves the source directory as it is, and in the destination
\* directory it writes only files the mapping names whose source exists;
\* every other destination file stays as it was, so a file an earlier run
\* copied whose source has since been removed is neither deleted nor
\* rewritten.
C10_Frame ==
    /\ ppc \in {"mkdir", "loop"} =>
         /\ src_files = run_src
         /\ Frame(run_dest, dest_files, run_src)
    /\ \A k \in 1..Len(runs) :
         /\ runs[k].src_end = runs[k].src
         /\ Frame(runs[k].dest0, runs[k].dest, runs[k].src)
         /\ \A n \in DOMAIN runs[k].dest0 :
              n \notin DOMAIN runs[k].src =>
                /\ n \in DOMAIN runs[k].dest
                /\ runs[k].dest[n] = runs[k].dest0[n]

C10_Witness ==
    /\ Len(runs) = 2
    /\ Finished = {1, 2}
    /\ "icon_16x16.png" \in DOMAIN runs[1].src
    /\ "icon_16x16.png" \notin DOMAIN runs[2].src
    /\ "icon_16x16.png" \in DOMAIN runs[2].dest
    /\ runs[2].dest["icon_16x16.png"] = runs[1].src["icon_16x16.png"]
    /\ "extra.png" \in DOMAIN runs[2].dest

----------------------------------------------------------------------------
(* Properties of create_icon, checked under IconSpec.                      *)

\* C6 as stated: at every pixel size of the fixed set, every pixel of the
\* four r x r corner regions, r = int(0.22 * size), has alpha 0.
C6_Original == probe # <<>> => probe[3] = 0

\* Centre of the arc that rounds the corner region a coordinate lies in: r
\* at the near edge, size - r at the far edge, the rounded rectangle
\* reaching from 0 to size.
ArcCentre(size, r, c) == IF c < r THEN r ELSE size - r

\* C6 amended: at every pixel size of the fixed set a corner region is
\* transparent only outside the arc of the rounded rectangle: a pixel of a
\* region has alpha 0 when it lies more than r + 1 from the arc's centre and
\* alpha 255 when it lies less than r - 1 from it.  The corner pixels (0,0),
\* (size-1,0) and (0,size-1) have alpha 0 at every size; (size-1,size-1) has
\* alpha 0 at every size but 16, where it has alpha 255.
C6_Corners ==
    probe # <<>> =>
        LET size == icon.width
            r    == corner_radius(size)
            x    == probe[1]
            y    == probe[2]
            dx   == x - ArcCentre(size, r, x)
            dy   == y - ArcCentre(size, r, y)
            d2   == dx * dx + dy * dy
        IN  /\ probe[3] \in {0, 255}
            /\ d2 > (r + 1) * (r + 1) => probe[3] = 0
            /\ d2 < (r - 1) * (r - 1) => probe[3] = 255
            /\ x \in {0, size - 1} /\ y \in {0, size - 1} =>
                 (probe[3] = 0 <=> ~(size = 16 /\ x = 15 /\ y = 15))

C6_Witness ==
    /\ icon.width = 16
    /\ probe = <<15, 15, 255>>

====
